---- MODULE Spec2Model ----
(***************************************************************************)
(* Model of the MOX gas sensor of PegasusSimulator                         *)
(* (pegasus/simulator/logic/sensors/mox.py): the iteration scheduler, the  *)
(* snapshot loads, the concentration estimator with its visibility check,  *)
(* the sensor response model, update() and stop().                         *)
(*                                                                         *)
(* Numbers.  Python floats are modelled by exact rationals <<n, d>>        *)
(* (d > 0, lowest terms).  Lengths are in metres and all positions have    *)
(* integer coordinates, so squared distances are integers.                 *)
(***************************************************************************)
EXTENDS Integers, Sequences, FiniteSets, TLC

\* a float attribute that has no value yet
Unset == <<0, 0>>

(***************************************************************************)
(* Rational arithmetic.  Value(S) is the element of a singleton set: the   *)
(* operators below bind their arguments to values through it before they  *)
(* compute with them.                                                      *)
(***************************************************************************)
Value(S) == CHOOSE v \in S : TRUE

Abs(a) == IF a < 0 THEN -a ELSE a

RECURSIVE GCDv(_, _)
GCDv(a, b) == IF b = 0 THEN a ELSE Value({GCDv(x, y) : x \in {b}, y \in {a % b}})
GCD(a, b) == Value({GCDv(x, y) : x \in {a}, y \in {b}})

LCM(a, b) == Value({(x \div GCD(x, y)) * y : x \in {a}, y \in {b}})

\* the rational n/d in lowest terms with a positive denominator
Qv(n, d, g) == IF d < 0 THEN <<(-n) \div g, (-d) \div g>> ELSE <<n \div g, d \div g>>
Q(n, d) == Value({Qv(x, y, GCD(Abs(x), Abs(y))) : x \in {n}, y \in {d}})

QInt(n) == <<n, 1>>
QZero == <<0, 1>>

QAddv(a, b, l) == Q(a[1] * (l \div a[2]) + b[1] * (l \div b[2]), l)
QAdd(a, b) == Value({Value({QAddv(x, y, l) : l \in {LCM(x[2], y[2])}}) : x \in {a}, y \in {b}})

QNeg(a) == Value({<<-x[1], x[2]>> : x \in {a}})
QSub(a, b) == QAdd(a, QNeg(b))

QMulv(a, b, g1, g2) == Q((a[1] \div g1) * (b[1] \div g2), (a[2] \div g2) * (b[2] \div g1))
QMul(a, b) ==
    Value({QMulv(x, y, GCD(Abs(x[1]), y[2]), GCD(Abs(y[1]), x[2])) : x \in {a}, y \in {b}})
QInv(a) == Value({Q(x[2], x[1]) : x \in {a}})
QDiv(a, b) == QMul(a, QInv(b))

QLtv(a, b, l) == a[1] * (l \div a[2]) < b[1] * (l \div b[2])
QLt(a, b) == Value({Value({QLtv(x, y, l) : l \in {LCM(x[2], y[2])}}) : x \in {a}, y \in {b}})
QLe(a, b) == ~QLt(b, a)

\* Python int(x) for x >= 0, math.floor(x): the integer part
QFloor(a) == Value({x[1] \div x[2] : x \in {a}})

RECURSIVE IPowv(_, _)
IPowv(b, e) == IF e = 0 THEN 1 ELSE b * Value({IPowv(b, x) : x \in {e - 1}})
IPow(b, e) == Value({IPowv(x, y) : x \in {b}, y \in {e}})

(***************************************************************************)
(* gas_sensor_utils: the calibration tables.  The module is imported by    *)
(* mox.py but is not part of the sources at hand; the tables below have    *)
(* the shape the specification gives them (two sensor models, two gases).  *)
(* The exponent B of RS/R0 = A * conc^B is a negative integer so that the  *)
(* power is a rational.  A gas type without a calibration entry is a key   *)
(* missing from sensitivity_lineloglog[model].                             *)
(***************************************************************************)
SensorModels == {0, 1}
GasTypes == {0, 1}

sensitivity_air == [m \in SensorModels |-> IF m = 0 THEN QInt(2) ELSE QInt(1)]

\* base resistance of each sensor model
R0 == [m \in SensorModels |-> IF m = 0 THEN QInt(3) ELSE QInt(50)]

\* tau_value[model][0] = <<tau_rise, tau_decay>>
tau_value ==
    [m \in SensorModels |-> <<IF m = 0 THEN <<QInt(1), QInt(3)>>
                                       ELSE <<QInt(3), QInt(1)>> >>]

\* sensitivity_lineloglog[model][gas] = <<A, B>>
sensitivity_lineloglog ==
    [m \in SensorModels |->
        IF m = 0 THEN (0 :> <<Q(1, 4), -1>> @@ 1 :> <<Q(1, 512), -1>>)
                 ELSE (0 :> <<Q(1, 2), -2>>)]

\* math.pow(c, B) for c > 0 and an integer B < 0
Pow(c, B) == Value({Q(IPow(x[2], -B), IPow(x[1], -B)) : x \in {c}})

(***************************************************************************)
(* The environment: the occupancy grid, its specification and the          *)
(* snapshot store (one filament array and one header per iteration).       *)
(***************************************************************************)
\* config["env_dict"]["env_spec"]
env_spec ==
    [env_min |-> <<0, 0, 0>>, env_max |-> <<4, 4, 4>>,
     num_cells |-> <<4, 4, 4>>, cell_size |-> 1]

\* the occupancy grid file of the environment: the cells that hold an
\* obstacle, as <<z, x, y>>
Occupied == {<<1, 2, 1>>}

\* self._occ_grid, loaded at construction (line 67): its occupied cells
VARIABLE occupied

\* self._occ_grid[z_idx, x_idx, y_idx] with numpy's indexing: an index in
\* -n .. -1 counts from the end, any other index outside 0 .. n-1 raises
\* IndexError
GridIndexOk(i, n) == i >= -n /\ i < n
GridWrap(i, n) == IF i < 0 THEN i + n ELSE i
occ_grid(z_idx, x_idx, y_idx) ==
    IF <<GridWrap(z_idx, env_spec.num_cells[3]),
         GridWrap(x_idx, env_spec.num_cells[1]),
         GridWrap(y_idx, env_spec.num_cells[2])>> \in occupied
    THEN 1 ELSE 0

Filament(id, x, y, z, sigma) == [id |-> id, x |-> x, y |-> y, z |-> z, sigma |-> sigma]

\* iteration_<k>_fil.npy: the filaments of iteration k
gas_data_of(k) ==
    CASE k % 3 = 0 -> <<Filament(0, 1, 1, 1, 60)>>
      [] k % 3 = 1 -> <<Filament(0, 1, 1, 1, 20), Filament(1, 1, 2, 1, 60)>>
      [] OTHER     -> <<Filament(0, 3, 3, 3, 60)>>

\* iteration_<k>_head.npy
gas_data_head_of(k) ==
    [filament_num_moles_of_gas |-> 432, num_moles_all_gases_in_cm3 |-> 125]

(***************************************************************************)
(* check_env_for_obstacle3D                                                *)
(***************************************************************************)
RECURSIVE CeilSqrtFrom(_, _)
CeilSqrtFrom(q, n) ==
    IF n * n >= q THEN n ELSE Value({CeilSqrtFrom(q, m) : m \in {n + 1}})
\* math.ceil(sqrt(q) / c) for integers q >= 0, c > 0
CeilSqrtDiv(q, c) ==
    Value({r \div c + (IF r % c # 0 THEN 1 ELSE 0) : r \in {CeilSqrtFrom(q, 0)}})

SumSq(p) == p[1] * p[1] + p[2] * p[2] + p[3] * p[3]

\* np.linalg.norm((start, end)) squared: the norm of the 2x3 array that
\* stacks the two points
NormSq(start, end) == SumSq(start) + SumSq(end)

\* samples = math.ceil(dist / cell_size) + 1
Samples(start, end) == CeilSqrtDiv(NormSq(start, end), env_spec.cell_size) + 1

\* SampleIdx that takes every sample at the start point
SampleIdx_AtStart(a, b, samples, i, env_min) == (a - env_min) \div env_spec.cell_size

\* math.floor((np.linspace(a, b, samples)[i] - env_min) / cell_size)
SampleIdx(a, b, samples, i, env_min) ==
    IF samples = 1 THEN (a - env_min) \div env_spec.cell_size
    ELSE (a * (samples - 1) + i * (b - a) - env_min * (samples - 1))
            \div ((samples - 1) * env_spec.cell_size)

\* one sampled point, lines 282-286: "False" on an occupied cell,
\* "IndexError" on an index outside the grid, else "Free"
SampleAt(z_idx, x_idx, y_idx) ==
    IF ~(/\ GridIndexOk(z_idx, env_spec.num_cells[3])
         /\ GridIndexOk(x_idx, env_spec.num_cells[1])
         /\ GridIndexOk(y_idx, env_spec.num_cells[2]))
    THEN "IndexError"
    ELSE IF occ_grid(z_idx, x_idx, y_idx) # 0 THEN "False" ELSE "Free"

\* the loop over the sampled points, from sample i on: "True", "False", or
\* "IndexError"
RECURSIVE ScanSamples(_, _, _, _)
ScanSamples(start, end, samples, i) ==
    IF i >= samples THEN "True"
    ELSE Value({IF here = "Free"
                THEN Value({ScanSamples(start, end, samples, j) : j \in {i + 1}})
                ELSE here :
                here \in {SampleAt(
                    SampleIdx(start[3], end[3], samples, i, env_spec.env_min[3]),
                    SampleIdx(start[1], end[1], samples, i, env_spec.env_min[1]),
                    SampleIdx(start[2], end[2], samples, i, env_spec.env_min[2]))}})

check_env_for_obstacle3D(start, end) ==
    Value({ScanSamples(start, end, n, 0) : n \in {Samples(start, end)}})

(***************************************************************************)
(* concentration_from_filament and the concentration loop of update()      *)
(***************************************************************************)
DistSq(loc, f) ==
    (loc[1] - f.x) * (loc[1] - f.x) + (loc[2] - f.y) * (loc[2] - f.y)
        + (loc[3] - f.z) * (loc[3] - f.z)

\* math.sqrt(8*pow(math.pi,3)) = 15.75..., rounded to a rational
Sqrt8Pi3 == 16

\* math.exp(-x) for a rational x >= 0, rounded to the rational 2^(-floor(x)):
\* positive, 1 at 0, decreasing
ExpNeg(x) == Value({Q(1, IPow(2, e)) : e \in {QFloor(x)}})

\* lines 202-210; sigma and the distance are in cm.  The division by
\* num_moles_all_gases_in_cm3 and the factor 1000000 of line 209 are applied
\* as one exact factor.
concentration_from_filament(loc, filament, gas_data_head) ==
    QMul(QMul(Q(gas_data_head.filament_num_moles_of_gas,
                Sqrt8Pi3 * filament.sigma * filament.sigma * filament.sigma),
              ExpNeg(Q(10000 * DistSq(loc, filament),
                       2 * filament.sigma * filament.sigma))),
         Q(1000000, gas_data_head.num_moles_all_gases_in_cm3))

\* WithinRange with the boundary included
WithinRange_Inclusive(loc, filament) ==
    10000 * DistSq(loc, filament) <= 25 * filament.sigma * filament.sigma

\* dist_SQR < pow(limit_distance, 2) with limit_distance = sigma*5/100
WithinRange(loc, filament) ==
    10000 * DistSq(loc, filament) < 25 * filament.sigma * filament.sigma

\* one filament of the loop, lines 169-178, with the sum so far: the
\* visibility check runs only for a filament within range (Python's
\* short-circuit "and"); [raised, gas_conc]
AddFilament(loc, filament, gas_data_head, acc) ==
    IF ~WithinRange(loc, filament) THEN [raised |-> FALSE, gas_conc |-> acc]
    ELSE Value({IF vis = "IndexError" THEN [raised |-> TRUE, gas_conc |-> acc]
                ELSE IF vis = "True"
                THEN [raised |-> FALSE,
                      gas_conc |-> QAdd(acc, concentration_from_filament(
                                                 loc, filament, gas_data_head))]
                ELSE [raised |-> FALSE, gas_conc |-> acc] :
                vis \in {check_env_for_obstacle3D(
                             loc, <<filament.x, filament.y, filament.z>>)}})

\* lines 167-178: self._gas_conc = 0.0, then the loop over the filaments from
\* index i on with the sum so far; [raised, gas_conc].  An IndexError raised
\* by the visibility check leaves the sum so far in self._gas_conc.
RECURSIVE ConcLoop(_, _, _, _, _)
ConcLoop(loc, gas_data, gas_data_head, i, acc) ==
    IF i > Len(gas_data) THEN [raised |-> FALSE, gas_conc |-> acc]
    ELSE Value({IF step.raised THEN step
                ELSE ConcLoop(loc, gas_data, gas_data_head, i + 1, step.gas_conc) :
                step \in {AddFilament(loc, gas_data[i], gas_data_head, acc)}})

gas_conc_at(loc, gas_data, gas_data_head) ==
    ConcLoop(loc, gas_data, gas_data_head, 1, QZero)

(***************************************************************************)
(* simulate_mox_as_line_loglog                                             *)
(***************************************************************************)
\* The sensor fields the response model reads and writes are passed in and
\* returned: [raised, sensor_output, RS_R0, first_reading,
\* previous_sensor_output, tau], where sensor_output and RS_R0 are the
\* returned pair and tau is the time constant the call used (Unset when it
\* used none).  The arithmetic is exact where Python rounds to a double.

\* FirstReading with the scaling by R0 of line 269 left out
FirstReading_Unscaled(sensor_model) ==
    [raised |-> FALSE,
     sensor_output |-> sensitivity_air[sensor_model],
     RS_R0 |-> sensitivity_air[sensor_model],
     first_reading |-> FALSE,
     previous_sensor_output |-> sensitivity_air[sensor_model],
     tau |-> Unset]

\* lines 215-218 and 269: the first reading
FirstReading(sensor_model) ==
    [raised |-> FALSE,
     sensor_output |-> QMul(sensitivity_air[sensor_model], R0[sensor_model]),
     RS_R0 |-> sensitivity_air[sensor_model],
     first_reading |-> FALSE,
     previous_sensor_output |-> sensitivity_air[sensor_model],
     tau |-> Unset]

\* lines 233-236: the calibration curve, or the air level at concentration 0
RsCurve(gas_concentration, sensor_model, gas_type) ==
    IF gas_concentration = QZero THEN sensitivity_air[sensor_model]
    ELSE QMul(sensitivity_lineloglog[sensor_model][gas_type][1],
              Pow(gas_concentration, sensitivity_lineloglog[sensor_model][gas_type][2]))

\* RsFloor without the cap at the air level of lines 237-238
RsFloor_NoCap(air, rs_curve) ==
    IF QLe(rs_curve, QZero) THEN Q(1, 100) ELSE rs_curve

\* lines 238-248: the curve value capped at the air level, turned into a
\* resistance variation and back, with the minimum applied
RsFloor(air, rs_curve) ==
    Value({IF QLe(rs_var, QZero) THEN Q(1, 100) ELSE rs_var :
           rs_var \in {QSub(air, QSub(air, IF QLt(air, rs_curve) THEN air ELSE rs_curve))}})

\* lines 230-248: RS/R0 for the concentration
SteadyRS(gas_concentration, sensor_model, gas_type) ==
    Value({RsFloor(sensitivity_air[sensor_model], rs_curve) :
           rs_curve \in {RsCurve(gas_concentration, sensor_model, gas_type)}})

\* Tau that takes the rise constant at equality too
Tau_RiseOnEqual(RS_R0, previous_sensor_output, sensor_model) ==
    IF QLe(RS_R0, previous_sensor_output)
    THEN tau_value[sensor_model][1][1]
    ELSE tau_value[sensor_model][1][2]

\* lines 252-255: the time constant of the filter
Tau(RS_R0, previous_sensor_output, sensor_model) ==
    IF QLt(RS_R0, previous_sensor_output)
    THEN tau_value[sensor_model][1][1]
    ELSE tau_value[sensor_model][1][2]

\* Filter that jumps to RS_R0 at once
Filter_Jump(dt, tau, RS_R0, previous_sensor_output) == RS_R0

\* lines 259-263: the low pass filter
Filter(dt, tau, RS_R0, previous_sensor_output) ==
    Value({QAdd(QMul(alpha, RS_R0), QMul(QSub(QInt(1), alpha), previous_sensor_output)) :
           alpha \in {QDiv(dt, QAdd(tau, dt))}})

\* lines 259-269 with the time constant chosen
TrackWith(dt, tau, RS_R0, previous_sensor_output, sensor_model) ==
    Value({[raised |-> FALSE,
            sensor_output |-> QMul(sensor_output, R0[sensor_model]),
            RS_R0 |-> RS_R0,
            first_reading |-> FALSE,
            previous_sensor_output |-> sensor_output,
            tau |-> tau] :
           sensor_output \in {Filter(dt, tau, RS_R0, previous_sensor_output)}})

\* lines 250-269 for the RS/R0 of the concentration
TrackTo(dt, RS_R0, previous_sensor_output, sensor_model) ==
    Value({TrackWith(dt, tau, RS_R0, previous_sensor_output, sensor_model) :
           tau \in {Tau(RS_R0, previous_sensor_output, sensor_model)}})

\* lines 220-269: a reading after the first; the lookup of a missing
\* calibration entry (line 233) raises
Tracking(dt, gas_concentration, previous_sensor_output, sensor_model, gas_type) ==
    IF gas_concentration # QZero
       /\ gas_type \notin DOMAIN sensitivity_lineloglog[sensor_model]
    THEN [raised |-> TRUE,
          sensor_output |-> Unset,
          RS_R0 |-> Unset,
          first_reading |-> FALSE,
          previous_sensor_output |-> previous_sensor_output,
          tau |-> Unset]
    ELSE Value({TrackTo(dt, RS_R0, previous_sensor_output, sensor_model) :
                RS_R0 \in {SteadyRS(gas_concentration, sensor_model, gas_type)}})

simulate_mox_as_line_loglog(dt, gas_concentration, first_reading, previous_sensor_output, sensor_model, gas_type) ==
    IF first_reading
    THEN FirstReading(sensor_model)
    ELSE Tracking(dt, gas_concentration, previous_sensor_output, sensor_model, gas_type)

(***************************************************************************)
(* The sensor object                                                       *)
(***************************************************************************)
MaxTicks == 6
TickCap == 13
MaxTimeTot == 24
MaxUpdateIter == 4

\* self._updates_per_gas_iter = int(self._gas_data_time_step*self._update_rate) - 1
UpdatesPerGasIter(gas_data_time_step, update_rate) ==
    QFloor(QMul(gas_data_time_step, update_rate)) - 1

\* MOX.__init__: the fields of a freshly constructed sensor
NewMOX(iter_start, iter_stop, update_rate, gas_data_time_step, sensor_model, gas_type) ==
    [iter_start |-> iter_start,
     iter_stop |-> iter_stop,
     filament_iter |-> iter_start,
     update_iter |-> 0,
     update_rate |-> update_rate,
     gas_data_time_step |-> gas_data_time_step,
     updates_per_gas_iter |-> UpdatesPerGasIter(gas_data_time_step, update_rate),
     sensor_model |-> sensor_model,
     gas_type |-> gas_type,
     sensor_output |-> QZero,
     gas_conc |-> QZero,
     RS_R0 |-> QZero,
     first_reading |-> TRUE,
     time_tot |-> QZero,
     previous_sensor_output |-> Unset,
     state |-> <<QZero, QZero, QZero>>]

\* self._time_tot += dt; the accumulator has a largest value, as a float has
TimeAdd(time_tot, dt) ==
    Value({IF QLt(QInt(MaxTimeTot), t) THEN QInt(MaxTimeTot) ELSE t :
           t \in {QAdd(time_tot, dt)}})

\* Advance without the wrap of lines 134-136
Advance_NoWrap(filament_iter, update_iter, iter_start, iter_stop, updates_per_gas_iter) ==
    IF update_iter # updates_per_gas_iter
    THEN <<filament_iter, update_iter + 1>>
    ELSE <<filament_iter + 1, 0>>

\* Advance without the reset of lines 139-141: update_iter always counts on
Advance_NoReset(filament_iter, update_iter, iter_start, iter_stop, updates_per_gas_iter) ==
    IF filament_iter = iter_stop /\ update_iter = updates_per_gas_iter
    THEN <<iter_start, 0>>
    ELSE <<filament_iter, update_iter + 1>>

\* Advance that wraps as soon as filament_iter is iter_stop
Advance_WrapEarly(filament_iter, update_iter, iter_start, iter_stop, updates_per_gas_iter) ==
    IF filament_iter = iter_stop
    THEN <<iter_start, 0>>
    ELSE IF update_iter # updates_per_gas_iter
    THEN <<filament_iter, update_iter + 1>>
    ELSE <<filament_iter + 1, 0>>

\* Advance that starts update_iter over without moving to the next iteration
Advance_ReloadInPlace(filament_iter, update_iter, iter_start, iter_stop, updates_per_gas_iter) ==
    IF filament_iter = iter_stop /\ update_iter = updates_per_gas_iter
    THEN <<iter_start, 0>>
    ELSE IF update_iter # updates_per_gas_iter
    THEN <<filament_iter, update_iter + 1>>
    ELSE <<filament_iter, 0>>

\* Advance that stays on iter_stop instead of looping to iter_start
Advance_StuckAtStop(filament_iter, update_iter, iter_start, iter_stop, updates_per_gas_iter) ==
    IF filament_iter = iter_stop /\ update_iter = updates_per_gas_iter
    THEN <<iter_stop, 0>>
    ELSE IF update_iter # updates_per_gas_iter
    THEN <<filament_iter, update_iter + 1>>
    ELSE <<filament_iter + 1, 0>>

\* lines 134-141: the counter transition, <<filament_iter, update_iter>>
Advance(filament_iter, update_iter, iter_start, iter_stop, updates_per_gas_iter) ==
    IF filament_iter = iter_stop /\ update_iter = updates_per_gas_iter
    THEN <<iter_start, 0>>
    ELSE IF update_iter # updates_per_gas_iter
    THEN <<filament_iter, update_iter + 1>>
    ELSE <<filament_iter + 1, 0>>

\* a load on every tick
LoadDue_EveryTick(update_iter) == TRUE

\* line 146: the snapshot of filament_iter is loaded
LoadDue(update_iter) == update_iter = 0

\* line 154: the concentration is recomputed
RecomputeDue(update_iter) == update_iter = 0

\* the response model called with the concentration of the previous tick
ResponseInput_Stale(gas_conc_before, gas_conc_now) == gas_conc_before

\* line 181: the concentration handed to the response model is
\* self._gas_conc as it is after lines 154-178
ResponseInput(gas_conc_before, gas_conc_now) == gas_conc_now

\* line 184: the new record [sensor_output, gas_conc, RS_R0]
StateRecord(sensor_output, gas_conc, RS_R0) == <<sensor_output, gas_conc, RS_R0>>

\* lines 132-141: the clock and the counters
Advanced(m, dt) ==
    Value({[m EXCEPT !.time_tot = TimeAdd(m.time_tot, dt),
                     !.filament_iter = it[1],
                     !.update_iter = it[2]] :
           it \in {Advance(m.filament_iter, m.update_iter, m.iter_start, m.iter_stop,
                           m.updates_per_gas_iter)}})

\* lines 181-187 on the sensor m2 that holds the concentration of this tick:
\* the response model is called with conc, then the fields and the record
\* are assigned
Respond(m2, dt, conc, events) ==
    Value({IF r.raised
           THEN [mox |-> [m2 EXCEPT !.first_reading = r.first_reading,
                                    !.previous_sensor_output = r.previous_sensor_output],
                 raised |-> TRUE, events |-> events, consumed |-> conc]
           ELSE [mox |-> [m2 EXCEPT !.first_reading = r.first_reading,
                                    !.previous_sensor_output = r.previous_sensor_output,
                                    !.sensor_output = r.sensor_output,
                                    !.RS_R0 = r.RS_R0,
                                    !.state = StateRecord(r.sensor_output, m2.gas_conc,
                                                          r.RS_R0)],
                 raised |-> FALSE, events |-> events, consumed |-> conc] :
           r \in {simulate_mox_as_line_loglog(dt, conc, m2.first_reading,
                      m2.previous_sensor_output, m2.sensor_model, m2.gas_type)}})

\* lines 154-187 on a tick that recomputes: the concentration loop over the
\* loaded snapshot, then the response
Estimate(m1, loc, dt, events) ==
    Value({IF est.raised
           THEN [mox |-> [m1 EXCEPT !.gas_conc = est.gas_conc], raised |-> TRUE,
                 events |-> Append(events, "estimate"), consumed |-> Unset]
           ELSE Respond([m1 EXCEPT !.gas_conc = est.gas_conc], dt,
                        ResponseInput(m1.gas_conc, est.gas_conc),
                        events \o <<"estimate", "respond">>) :
           est \in {gas_conc_at(loc, gas_data_of(m1.filament_iter),
                                gas_data_head_of(m1.filament_iter))}})

\* AfterAdvance that runs the concentration loop on every tick
AfterAdvance_AlwaysEstimate(m1, present, loc, dt) ==
    IF LoadDue(m1.update_iter) /\ m1.filament_iter \notin present
    THEN [mox |-> m1, raised |-> TRUE, events |-> <<"advance", "load">>,
          consumed |-> Unset]
    ELSE Estimate(m1, loc, dt, <<"advance", "load">>)

\* AfterAdvance that goes on with an empty snapshot when the file is missing
AfterAdvance_EmptyWhenMissing(m1, present, loc, dt) ==
    IF RecomputeDue(m1.update_iter)
    THEN Respond([m1 EXCEPT !.gas_conc = QZero], dt, QZero,
                 <<"advance", "load", "estimate", "respond">>)
    ELSE Respond(m1, dt, m1.gas_conc, <<"advance", "respond">>)

\* lines 146-187 on the sensor m1 whose counters have advanced.  gas_data
\* and gas_data_head are locals of update(): a tick that recomputes without
\* having loaded would read them unbound.
AfterAdvance(m1, present, loc, dt) ==
    IF LoadDue(m1.update_iter) /\ m1.filament_iter \notin present
    THEN [mox |-> m1, raised |-> TRUE, events |-> <<"advance", "load">>,
          consumed |-> Unset]
    ELSE IF RecomputeDue(m1.update_iter) /\ ~LoadDue(m1.update_iter)
    THEN [mox |-> m1, raised |-> TRUE, events |-> <<"advance">>, consumed |-> Unset]
    ELSE IF RecomputeDue(m1.update_iter)
    THEN Estimate(m1, loc, dt, <<"advance", "load">>)
    ELSE Respond(m1, dt, ResponseInput(m1.gas_conc, m1.gas_conc),
                 IF LoadDue(m1.update_iter)
                 THEN <<"advance", "load", "respond">>
                 ELSE <<"advance", "respond">>)

\* MOX.update, lines 132-187, on the sensor m with the snapshot files in
\* present: the sensor after the call, whether the call raised, the steps it
\* took in order ("advance": lines 134-141, "load": np.load called, lines
\* 147-148, "estimate": lines 167-178, "respond": line 181), and the
\* concentration the response model was called with.  An exception leaves
\* the assignments made before it in place; np.load raises when the file of
\* the iteration is missing.  The rate gate of Sensor.update_at_rate is not
\* part of these sources: one call is one execution of the body.
update(m, present, loc, dt) ==
    Value({AfterAdvance(m1, present, loc, dt) : m1 \in {Advanced(m, dt)}})

\* MOX.stop, lines 191-199
stop(m) ==
    [m EXCEPT !.filament_iter = m.iter_start,
              !.sensor_output = QZero,
              !.gas_conc = QZero,
              !.RS_R0 = QZero,
              !.first_reading = TRUE,
              !.time_tot = QZero]

\* line 187, return self._state: what the caller gets is the object that
\* self._state refers to (alias), not a copy of it
Returned(state) == [holds |-> TRUE, alias |-> TRUE, copy |-> state]

(***************************************************************************)
(* State                                                                   *)
(***************************************************************************)
VARIABLES
    mox,        \* the fields of the MOX object
    present,    \* the iterations whose snapshot files exist
    caller,     \* the record the caller got from its last update() that returned
    last,       \* the last call: its kind, input, outcome and steps
    ticks,      \* update() calls since construction (counted up to TickCap)
    stopped,    \* whether stop() has been called since construction
    probe       \* the last direct call of one of the sensor's methods

vars == <<mox, present, caller, last, ticks, stopped, occupied, probe>>

\* configurations: <<gas_data_start_iter, gas_data_stop_iter>>
IterRanges == {<<300, 300>>, <<300, 301>>, <<300, 302>>}
\* <<update_rate, gas_data_time_step>>
RateConfigs == {<<QInt(1), Q(1, 2)>>, <<QInt(2), Q(1, 2)>>,
                <<QInt(4), Q(1, 2)>>, <<QInt(6), Q(1, 2)>>}
\* <<sensor_model, gas_type>>; (1, 1) has no calibration entry
ModelConfigs == {<<0, 0>>, <<1, 0>>, <<1, 1>>}

\* query positions and time deltas handed to update()
Positions == {<<1, 1, 1>>, <<3, 1, 1>>, <<1, 3, 1>>, <<4, 3, 3>>}
FarPosition == <<4, 0, 0>>
DTs == {QInt(1)}

\* what a caller writes into a record it holds
Tampered == <<QInt(-1), QInt(-1), QInt(-1)>>

Iterations(range) == range[1] .. range[2]

NoCall == [op |-> "init", after |-> "init", raised |-> FALSE, events |-> <<>>,
           consumed |-> Unset]

NoProbe == [fn |-> "none", args |-> <<>>, out |-> <<>>]

InitWith(range, rate, model, files) ==
    /\ mox = NewMOX(range[1], range[2], rate[1], rate[2], model[1], model[2])
    /\ present = files
    /\ caller = [holds |-> FALSE, alias |-> FALSE, copy |-> <<QZero, QZero, QZero>>]
    /\ last = NoCall
    /\ ticks = 0
    /\ stopped = FALSE
    /\ occupied = Occupied
    /\ probe = NoProbe

Init ==
    \E range \in IterRanges, rate \in RateConfigs, model \in ModelConfigs :
        \E files \in {Iterations(range), Iterations(range) \ {range[2]}} :
            InitWith(range, rate, model, files)

\* one call of update(state, dt) with state.position = loc
Update(loc, dt) ==
    \E r \in {update(mox, present, loc, dt)} :
        /\ mox' = r.mox
        /\ caller' = IF r.raised THEN caller ELSE Returned(r.mox.state)
        /\ last' = [op |-> "update", after |-> last.op, raised |-> r.raised,
                    events |-> r.events, consumed |-> r.consumed]
        /\ ticks' = IF ticks < TickCap THEN ticks + 1 ELSE ticks
        /\ UNCHANGED <<present, stopped, occupied, probe>>

Tick ==
    /\ ticks < MaxTicks
    /\ \E loc \in Positions, dt \in DTs : Update(loc, dt)

\* one call of stop()
Stop ==
    /\ mox' = stop(mox)
    /\ last' = [NoCall EXCEPT !.op = "stop", !.after = last.op]
    /\ stopped' = TRUE
    /\ UNCHANGED <<present, caller, ticks, occupied, probe>>

\* the caller writes into the record it was given
CallerMutate ==
    /\ caller.holds
    /\ caller.copy # Tampered
    /\ caller' = [caller EXCEPT !.copy = Tampered]
    /\ mox' = IF caller.alias THEN [mox EXCEPT !.state = Tampered] ELSE mox
    /\ last' = [NoCall EXCEPT !.op = "mutate", !.after = last.op]
    /\ UNCHANGED <<present, ticks, stopped, occupied, probe>>

Next == Tick \/ Stop \/ CallerMutate

Spec == Init /\ [][Next]_vars

(***************************************************************************)
(* The scheduler on its own inputs: one query position far from every      *)
(* filament, longer runs, and the range 300..305 of the benchmark example. *)
(***************************************************************************)
IterRangesSched == IterRanges \cup {<<300, 305>>}

InitSched ==
    \E range \in IterRangesSched, rate \in RateConfigs :
        \E files \in {Iterations(range), Iterations(range) \ {range[2]}} :
            InitWith(range, rate, <<0, 0>>, files)

TickSched ==
    /\ ticks < TickCap
    /\ \E dt \in DTs : Update(FarPosition, dt)

NextSched == TickSched \/ Stop

SpecSched == InitSched /\ [][NextSched]_vars

(***************************************************************************)
(* Playback without end: update() is called again and again (the fixed     *)
(* step loop of the simulation), every snapshot file exists.  The counter  *)
(* of a sensor whose update_iter never resets is followed up to            *)
(* MaxUpdateIter.                                                          *)
(***************************************************************************)
InitLive ==
    \E range \in IterRanges, rate \in RateConfigs, model \in ModelConfigs :
        InitWith(range, rate, model, Iterations(range))

TickLive ==
    /\ mox.update_iter < MaxUpdateIter
    /\ \E dt \in DTs : Update(FarPosition, dt)

NextLive == TickLive

SpecLive == InitLive /\ [][NextLive]_vars /\ WF_vars(TickLive)

(***************************************************************************)
(* The geometry on its own inputs: check_env_for_obstacle3D and the loop   *)
(* body of the concentration estimate called directly, on the grid of the  *)
(* environment and on a grid without obstacles.                            *)
(***************************************************************************)
\* points <<x, y, z>>: inside the environment, its faces included, and one
\* point below env_min
Points ==
    {<<x, y, 1>> : x \in 0 .. 4, y \in {1, 3}}
        \cup {<<3, 3, 4>>, <<4, 4, 4>>, <<-1, 1, 1>>}

Grids == {{}, Occupied}

\* filaments of the snapshots: centres and sigma [cm]
ProbeFilaments ==
    {Filament(0, c[1], c[2], c[3], sigma) :
        c \in {<<1, 1, 1>>, <<1, 3, 1>>, <<3, 3, 4>>}, sigma \in {20, 60}}

InitGeom ==
    /\ mox = NewMOX(300, 300, QInt(4), Q(1, 2), 0, 0)
    /\ present = {300}
    /\ caller = [holds |-> FALSE, alias |-> FALSE, copy |-> <<QZero, QZero, QZero>>]
    /\ last = NoCall
    /\ ticks = 0
    /\ stopped = FALSE
    /\ occupied \in Grids
    /\ probe = NoProbe

\* one call of check_env_for_obstacle3D(start, end)
CallVisibility ==
    \E start \in Points, end \in Points :
        /\ probe' = [fn |-> "check_env_for_obstacle3D",
                     args |-> <<start, end>>,
                     out |-> [result |-> check_env_for_obstacle3D(start, end),
                              samples |-> Samples(start, end)]]
        /\ UNCHANGED <<mox, present, caller, last, ticks, stopped, occupied>>

\* one pass of the loop body of lines 168-178 with self._gas_conc at 0.0
CallAddFilament ==
    \E loc \in Points, filament \in ProbeFilaments :
        /\ probe' = [fn |-> "filament",
                     args |-> <<loc, filament>>,
                     out |-> AddFilament(loc, filament, gas_data_head_of(300), QZero)]
        /\ UNCHANGED <<mox, present, caller, last, ticks, stopped, occupied>>

NextGeom == CallVisibility \/ CallAddFilament

SpecGeom == InitGeom /\ [][NextGeom]_vars

(***************************************************************************)
(* The response model on its own inputs: simulate_mox_as_line_loglog       *)
(* called directly on a constructed sensor, with any concentration at each *)
(* call.                                                                   *)
(***************************************************************************)
MaxCalls == 4

\* concentrations [ppm] handed to the response model
RespConcs == {QZero, Q(1, 16), QInt(1), QInt(32)}
\* time deltas handed to the response model
RespDTs == {QInt(1), Q(1, 2)}

InitResp ==
    \E model \in ModelConfigs :
        InitWith(<<300, 300>>, <<QInt(4), Q(1, 2)>>, model, {300})

\* the direct calls of the response model made so far
Calls == IF probe.fn = "simulate_mox_as_line_loglog" THEN probe.out.calls ELSE 0

Last3(seq) == IF Len(seq) > 3 THEN SubSeq(seq, Len(seq) - 2, Len(seq)) ELSE seq

\* the returned sensor_output values that end with the one of this call: of
\* the tracking calls made in a row with the same dt and concentration,
\* after the value returned just before them (the last three at most)
Trail(dt, conc, tracking, r) ==
    IF r.raised THEN <<>>
    ELSE IF ~tracking \/ probe.fn # "simulate_mox_as_line_loglog" THEN <<r.sensor_output>>
    ELSE IF probe.out.raised THEN <<r.sensor_output>>
    ELSE IF probe.out.tracking /\ probe.args = <<dt, conc>>
    THEN Last3(Append(probe.out.trail, r.sensor_output))
    ELSE <<probe.out.sensor_output, r.sensor_output>>

\* one call of simulate_mox_as_line_loglog(dt, gas_concentration): the
\* method updates self._first_reading and self._previous_sensor_output
CallRespond ==
    /\ Calls < MaxCalls
    /\ \E dt \in RespDTs, conc \in RespConcs :
        \E r \in {simulate_mox_as_line_loglog(dt, conc, mox.first_reading,
                      mox.previous_sensor_output, mox.sensor_model, mox.gas_type)} :
            /\ mox' = [mox EXCEPT !.first_reading = r.first_reading,
                                  !.previous_sensor_output = r.previous_sensor_output]
            /\ probe' = [fn |-> "simulate_mox_as_line_loglog",
                         args |-> <<dt, conc>>,
                         out |-> [raised |-> r.raised,
                                  sensor_output |-> r.sensor_output,
                                  RS_R0 |-> r.RS_R0,
                                  tracking |-> ~mox.first_reading,
                                  before |-> mox.previous_sensor_output,
                                  tau |-> r.tau,
                                  calls |-> Calls + 1,
                                  trail |-> Trail(dt, conc, ~mox.first_reading, r)]]
            /\ UNCHANGED <<present, caller, last, ticks, stopped, occupied>>

NextResp == CallRespond

SpecResp == InitResp /\ [][NextResp]_vars

(***************************************************************************)
(* Properties                                                              *)
(***************************************************************************)
InSeq(e, seq) == \E i \in 1 .. Len(seq) : seq[i] = e

Air == sensitivity_air[mox.sensor_model]

\* the sensor as it is right after construction with the configuration of m
Fresh(m) ==
    NewMOX(m.iter_start, m.iter_stop, m.update_rate, m.gas_data_time_step,
           m.sensor_model, m.gas_type)

\* what a call of update() gives its caller
Outcome(r) == [raised |-> r.raised,
               record |-> IF r.raised THEN <<Unset, Unset, Unset>> ELSE r.mox.state]

\* C1: in every state reached by update() and stop() calls, with
\* iter_start <= iter_stop, filament_iter lies within [iter_start, iter_stop].
C1_FilamentIterInRange ==
    mox.iter_start <= mox.iter_stop
        => mox.filament_iter \in mox.iter_start .. mox.iter_stop

\* a stop() and then an update() that brought filament_iter to iter_stop
C1_Witness ==
    /\ stopped /\ last.op = "update"
    /\ mox.iter_start < mox.iter_stop
    /\ mox.filament_iter = mox.iter_stop

\* C2 as stated: for any update_rate and gas_data_time_step, update_iter lies
\* within [0, updates_per_gas_iter].
C2_UpdateIterInRange_Original ==
    mox.update_iter \in 0 .. mox.updates_per_gas_iter

\* C2 amended: when floor(gas_data_time_step * update_rate) >= 1, that is
\* updates_per_gas_iter >= 0, update_iter lies within
\* [0, updates_per_gas_iter] in every state reached by update() and stop().
C2_UpdateIterInRange ==
    QFloor(QMul(mox.gas_data_time_step, mox.update_rate)) >= 1
        => mox.update_iter \in 0 .. mox.updates_per_gas_iter

\* update_iter at its upper end, after a stop() and an update()
C2_Witness ==
    /\ stopped /\ last.op = "update"
    /\ mox.updates_per_gas_iter >= 1
    /\ mox.update_iter = mox.updates_per_gas_iter

\* C3: in every update() call the snapshot of filament_iter is loaded exactly
\* when update_iter is 0 after the counter transition, and when the load
\* succeeds the concentration is recomputed exactly then; on every other tick
\* there is neither a load nor a recomputation.
C3_ReloadIffUpdateIterZero ==
    last.op = "update" =>
        /\ InSeq("load", last.events) <=> (mox.update_iter = 0)
        /\ InSeq("estimate", last.events) =>
              (mox.update_iter = 0 /\ InSeq("load", last.events))
        /\ (mox.update_iter = 0 /\ mox.filament_iter \in present)
              => InSeq("estimate", last.events)

\* a tick that reloaded and recomputed a concentration that is not 0, and the
\* tick after one that held it
C3_Witness ==
    /\ last.op = "update" /\ ~last.raised
    /\ mox.update_iter = 0 /\ mox.gas_conc # QZero
    /\ InSeq("estimate", last.events)
    /\ ticks >= 3

\* C4: from a fresh sensor, n update() calls leave the counters at the n-th
\* element of the cycle (iter_start,1) .. (iter_start,U), (iter_start+1,0) ..
\* (iter_stop,U), (iter_start,0): with P = (iter_stop-iter_start+1)*(U+1),
\* filament_iter = iter_start + (n mod P) div (U+1) and update_iter =
\* (n mod P) mod (U+1); for 300, 305, U = 1 the 12th tick gives (300, 0).
C4_CounterSequence ==
    (~stopped /\ mox.updates_per_gas_iter >= 0) =>
        LET U1 == mox.updates_per_gas_iter + 1
            P == (mox.iter_stop - mox.iter_start + 1) * U1
        IN  /\ mox.filament_iter = mox.iter_start + ((ticks % P) \div U1)
            /\ mox.update_iter = (ticks % P) % U1
            /\ (mox.iter_start = 300 /\ mox.iter_stop = 305
                /\ mox.updates_per_gas_iter = 1 /\ ticks = 12)
                  => (mox.filament_iter = 300 /\ mox.update_iter = 0)

\* the 12th tick of the example
C4_Witness ==
    /\ ~stopped /\ ticks = 12 /\ last.op = "update"
    /\ mox.iter_start = 300 /\ mox.iter_stop = 305 /\ mox.updates_per_gas_iter = 1
    /\ mox.filament_iter = 300 /\ mox.update_iter = 0

\* C5: the update() that follows a stop() returns what the first update()
\* of a freshly constructed sensor with the same configuration, snapshots
\* and input returns.
C5_ResetThenUpdateAsFresh ==
    [][\A loc \in Positions, dt \in DTs :
          (last.op = "stop" /\ Update(loc, dt)) =>
              Outcome([mox |-> mox', raised |-> last'.raised])
                  = Outcome(update(Fresh(mox), present, loc, dt))]_vars

\* C6: after stop(), filament_iter = iter_start, update_iter = 0,
\* gas_concentration = sensor_output = RS_R0 = 0, first_reading is true and
\* time_total = 0.
C6_StopResetsAll ==
    last.op = "stop" =>
        /\ mox.filament_iter = mox.iter_start
        /\ mox.update_iter = 0
        /\ mox.gas_conc = QZero
        /\ mox.sensor_output = QZero
        /\ mox.RS_R0 = QZero
        /\ mox.first_reading
        /\ mox.time_tot = QZero

\* C7 as stated: the first response after construction or reset returns
\* sensor_output = RS_R0 = sensitivity_air[model].
C7_FirstReading_Original ==
    [][(mox.first_reading /\ last'.op = "update" /\ ~last'.raised) =>
          (mox'.sensor_output = Air /\ mox'.RS_R0 = Air)]_vars

\* C7 amended: the first response after construction or reset returns
\* RS_R0 = sensitivity_air[model] and sensor_output = sensitivity_air[model]
\* * R0[model], for every concentration and every sensor model.
C7_FirstReading ==
    [][(mox.first_reading /\ last'.op = "update" /\ ~last'.raised) =>
          /\ mox'.RS_R0 = Air
          /\ mox'.sensor_output = QMul(Air, R0[mox.sensor_model])
          /\ mox'.state = <<QMul(Air, R0[mox.sensor_model]), mox'.gas_conc, Air>>]_vars

\* a first reading taken after a stop(), at a concentration that is not 0
C7_Witness ==
    /\ last.op = "update" /\ last.after = "stop" /\ ~last.raised
    /\ InSeq("respond", last.events)
    /\ mox.gas_conc # QZero
    /\ mox.RS_R0 = Air

\* C8: a caller that modifies the record update() returned changes nothing
\* the sensor holds or exposes.
C8_ReturnedRecordIsSnapshot ==
    [][CallerMutate => mox' = mox]_vars

\* the snapshot of iteration k was loaded by the last call
Loaded(k) ==
    /\ last.op = "update" /\ ~last.raised
    /\ InSeq("load", last.events)
    /\ mox.filament_iter = k

AtEnd == mox.filament_iter = mox.iter_stop /\ mox.update_iter = mox.updates_per_gas_iter
AtStart == mox.filament_iter = mox.iter_start /\ mox.update_iter = 0

C10_TickOrder ==
    (last.op = "update" /\ ~last.raised) =>
        /\ last.events = IF mox.update_iter = 0
                         THEN <<"advance", "load", "estimate", "respond">>
                         ELSE <<"advance", "respond">>
        /\ last.consumed = mox.gas_conc

\* a tick that recomputed a concentration other than the one held before,
\* and answered with it
C10_Witness ==
    /\ last.op = "update" /\ ~last.raised
    /\ last.events = <<"advance", "load", "estimate", "respond">>
    /\ last.consumed # QZero
    /\ ~mox.first_reading /\ mox.RS_R0 # Air

\* C11: an update() tick whose resulting update_iter is not 0 leaves
\* gas_concentration as it was before the tick, whatever position it is given.
C11_HeldBetweenReloads ==
    [][(last'.op = "update" /\ mox'.update_iter # 0)
          => mox'.gas_conc = mox.gas_conc]_vars

\* a tick that held a concentration that is not 0
C11_Witness ==
    /\ last.op = "update" /\ ~last.raised
    /\ mox.update_iter # 0
    /\ last.events = <<"advance", "respond">>
    /\ mox.gas_conc # QZero

\* C15: an update() whose reload is due while the snapshot file of the
\* selected iteration is missing raises after the one load attempt, and
\* gas_concentration, sensor_output, RS_R0, the published record and what the
\* caller holds are as before the call.
C15_MissingSnapshotIsFatal ==
    [][(last'.op = "update" /\ mox'.update_iter = 0
        /\ mox'.filament_iter \notin present)
          => /\ last'.raised
             /\ last'.events = <<"advance", "load">>
             /\ mox'.gas_conc = mox.gas_conc
             /\ mox'.sensor_output = mox.sensor_output
             /\ mox'.RS_R0 = mox.RS_R0
             /\ mox'.first_reading = mox.first_reading
             /\ mox'.state = mox.state
             /\ caller' = caller]_vars

\* a failed reload on a sensor that holds a reading taken from an earlier
\* snapshot
C15_Witness ==
    /\ last.op = "update" /\ last.raised
    /\ last.events = <<"advance", "load">>
    /\ mox.filament_iter \notin present
    /\ mox.gas_conc # QZero
    /\ mox.state[2] = mox.gas_conc

\* the calibration table has an entry for the configured pair
Calibrated(m) == m.gas_type \in DOMAIN sensitivity_lineloglog[m.sensor_model]

\* C16: no sensor whose (sensor_model, gas_type) has no calibration entry
\* gets as far as an update() call: update() never returns a reading on it.
C16_UncalibratedNeverUpdates ==
    (last.op = "update" /\ ~last.raised) => Calibrated(mox)

\* the squared distance [m^2] from loc to the filament is at least
\* (sigma*5/100)^2
BeyondCutoff(loc, filament) ==
    10000 * DistSq(loc, filament) >= 25 * filament.sigma * filament.sigma

\* C12: in the concentration loop a filament whose squared distance to the
\* query position is at least (sigma*5/100)^2 adds exactly zero, and a
\* filament adds something only if it is within that distance and in line of
\* sight.
C12_OutOfRangeAddsZero ==
    probe.fn = "filament" =>
        /\ BeyondCutoff(probe.args[1], probe.args[2])
              => probe.out = [raised |-> FALSE, gas_conc |-> QZero]
        /\ probe.out.gas_conc # QZero
              => /\ ~BeyondCutoff(probe.args[1], probe.args[2])
                 /\ check_env_for_obstacle3D(
                        probe.args[1],
                        <<probe.args[2].x, probe.args[2].y, probe.args[2].z>>) = "True"

\* a filament exactly at the cut-off distance, in free line of sight, that
\* added zero
C12_Witness ==
    /\ probe.fn = "filament"
    /\ 10000 * DistSq(probe.args[1], probe.args[2])
          = 25 * probe.args[2].sigma * probe.args[2].sigma
    /\ check_env_for_obstacle3D(
           probe.args[1],
           <<probe.args[2].x, probe.args[2].y, probe.args[2].z>>) = "True"
    /\ probe.out = [raised |-> FALSE, gas_conc |-> QZero]

\* C13: on a grid without an occupied cell the visibility check gives for
\* (a, b) what it gives for (b, a), for every pair of points.
C13_VisibilitySymmetric ==
    (probe.fn = "check_env_for_obstacle3D" /\ occupied = {}) =>
        check_env_for_obstacle3D(probe.args[2], probe.args[1]) = probe.out.result

\* two different points seen from each other on the empty grid, over a line
\* with samples between its ends
C13_Witness ==
    /\ probe.fn = "check_env_for_obstacle3D" /\ occupied = {}
    /\ probe.args[1] # probe.args[2]
    /\ probe.out.samples >= 3
    /\ probe.out.result = "True"

\* each coordinate of p lies between env_min and env_max, both included
InBounds(p) ==
    \A i \in 1 .. 3 : env_spec.env_min[i] <= p[i] /\ p[i] <= env_spec.env_max[i]

\* C17: for two points inside the environment bounds (env_min and env_max
\* included) the visibility check returns true or false and never fails.
C17_VisibilityNeverFails ==
    (probe.fn = "check_env_for_obstacle3D"
     /\ InBounds(probe.args[1]) /\ InBounds(probe.args[2]))
        => probe.out.result \in {"True", "False"}

\* C18: the visibility check takes ceil(d / cell_size) + 1 samples, d the
\* Euclidean distance between the two points given to it.
C18_SampleCount ==
    probe.fn = "check_env_for_obstacle3D" =>
        probe.out.samples
            = CeilSqrtDiv(SumSq(<<probe.args[1][1] - probe.args[2][1],
                                  probe.args[1][2] - probe.args[2][2],
                                  probe.args[1][3] - probe.args[2][3]>>),
                          env_spec.cell_size) + 1

\* a tracking call of the response model that returned
TrackingCall ==
    /\ probe.fn = "simulate_mox_as_line_loglog"
    /\ probe.out.tracking /\ ~probe.out.raised

\* s lies between from and target, both included
Toward(from, s, target) ==
    \/ QLe(from, s) /\ QLe(s, target)
    \/ QLe(target, s) /\ QLe(s, from)

\* alpha = dt / (tau + dt) of the last call
Alpha ==
    QDiv(probe.args[1],
         QAdd(Tau(probe.out.RS_R0, probe.out.before, mox.sensor_model), probe.args[1]))

\* two tracking calls in a row with the same dt and concentration have
\* returned: probe.out.trail holds the output returned before them and
\* their two outputs
ConstantRun == TrackingCall /\ Len(probe.out.trail) = 3

\* the step of the last call is (1 - alpha) times the step before it
StepShrinks ==
    QSub(probe.out.trail[3], probe.out.trail[2])
        = QMul(QSub(QInt(1), Alpha), QSub(probe.out.trail[2], probe.out.trail[1]))

\* C14 as stated: over tracking calls with constant concentration and dt the
\* returned sensor_output moves monotonically toward RS_R0 without passing
\* it, and each step is (1 - alpha) times the step before.
C14_Converges_Original ==
    ConstantRun =>
        /\ Toward(probe.out.trail[1], probe.out.trail[2], probe.out.RS_R0)
        /\ Toward(probe.out.trail[2], probe.out.trail[3], probe.out.RS_R0)
        /\ StepShrinks

\* C14 amended: over tracking calls with constant concentration and dt the
\* returned sensor_output moves monotonically toward RS_R0 * R0[model]
\* without passing it, and each step is (1 - alpha) times the step before,
\* alpha = dt / (tau + dt).
C14_Converges ==
    ConstantRun =>
        /\ Toward(probe.out.trail[1], probe.out.trail[2],
                  QMul(probe.out.RS_R0, R0[mox.sensor_model]))
        /\ Toward(probe.out.trail[2], probe.out.trail[3],
                  QMul(probe.out.RS_R0, R0[mox.sensor_model]))
        /\ StepShrinks

\* two tracking calls in a row at one concentration, the output rising
C14_Witness ==
    /\ ConstantRun
    /\ QLt(probe.out.trail[1], probe.out.trail[2])
    /\ QLt(probe.out.trail[2], probe.out.trail[3])
    /\ QLt(probe.out.trail[3], QMul(probe.out.RS_R0, R0[mox.sensor_model]))

\* C19: the RS_R0 a response-model call returns never exceeds
\* sensitivity_air[model], and at concentration 0 it equals it.
C19_RsAtMostAir ==
    (probe.fn = "simulate_mox_as_line_loglog" /\ ~probe.out.raised) =>
        /\ QLe(probe.out.RS_R0, Air)
        /\ probe.args[2] = QZero => probe.out.RS_R0 = Air

\* a tracking call whose calibration curve lies above the air level
C19_Witness ==
    /\ TrackingCall
    /\ probe.args[2] # QZero
    /\ QLt(Air, RsCurve(probe.args[2], mox.sensor_model, mox.gas_type))
    /\ probe.out.RS_R0 = Air

\* C20: the RS_R0 of a tracking call is never below 0.01.
C20_RsFloored ==
    TrackingCall => QLe(Q(1, 100), probe.out.RS_R0)

\* C21: a tracking call filters with tau_rise exactly when its RS_R0 is
\* strictly less than previous_sensor_output and with tau_decay otherwise,
\* equality included; previous_sensor_output is the filter output of the call
\* before, the value that was returned divided by R0[model].
C21_TauSelection ==
    TrackingCall =>
        /\ QLt(probe.out.RS_R0, probe.out.before)
              => probe.out.tau = tau_value[mox.sensor_model][1][1]
        /\ ~QLt(probe.out.RS_R0, probe.out.before)
              => probe.out.tau = tau_value[mox.sensor_model][1][2]
        /\ Len(probe.out.trail) >= 2
              => probe.out.before
                    = QDiv(probe.out.trail[Len(probe.out.trail) - 1], R0[mox.sensor_model])
        /\ mox.previous_sensor_output
              = QDiv(probe.out.sensor_output, R0[mox.sensor_model])

\* a tracking call whose RS_R0 equals previous_sensor_output, for a model
\* whose two time constants differ
C21_Witness ==
    /\ TrackingCall
    /\ probe.out.RS_R0 = probe.out.before
    /\ probe.out.tau = tau_value[mox.sensor_model][1][2]
    /\ probe.out.tau # tau_value[mox.sensor_model][1][1]
    /\ Len(probe.out.trail) >= 2

\* C22: after stop() the record the state property exposes is the initial
\* all-zero reading.
C22_StopClearsRecord ==
    last.op = "stop" => mox.state = <<QZero, QZero, QZero>>

\* the ticks of one pass over the range
PassLength == (mox.iter_stop - mox.iter_start + 1) * (mox.updates_per_gas_iter + 1)

\* C23: on a fresh sensor with iter_start < iter_stop the first
\* updates_per_gas_iter ticks load nothing and leave gas_concentration at 0,
\* the first snapshot loaded is that of iter_start + 1, and the snapshot of
\* iter_start is not loaded before the first wrap from
\* (iter_stop, updates_per_gas_iter).
C23_FirstPassSkipsStart ==
    (~stopped /\ mox.iter_start < mox.iter_stop) =>
        /\ ticks <= mox.updates_per_gas_iter
              => /\ mox.gas_conc = QZero
                 /\ last.op = "update" => ~InSeq("load", last.events)
        /\ (last.op = "update" /\ ticks = mox.updates_per_gas_iter + 1)
              => (InSeq("load", last.events)
                  /\ mox.filament_iter = mox.iter_start + 1)
        /\ (last.op = "update" /\ InSeq("load", last.events)
            /\ mox.filament_iter = mox.iter_start)
              => ticks >= PassLength

\* the first load of iter_start's snapshot, at the first wrap, with ticks
\* before the first load
C23_Witness ==
    /\ ~stopped /\ mox.iter_start < mox.iter_stop
    /\ mox.updates_per_gas_iter >= 1
    /\ Loaded(mox.iter_start)
    /\ ticks = PassLength
    /\ mox.gas_conc # QZero

====
